---- MODULE Spec2Model ----
(***************************************************************************)
(* Model of iyp/crawlers/google/gcp_ip_ranges.py: Crawler.run fetches the  *)
(* GCP IP range list, flattens it into records, gets or creates the        *)
(* GeoPrefix, Tag and Country nodes and sends the CATEGORIZED and COUNTRY   *)
(* link batches to the graph client (self.iyp).                            *)
(***************************************************************************)
EXTENDS Integers, Sequences, FiniteSets, TLC

VARIABLES
    pc,                 \* position of Crawler.run
    response,           \* what requests.get(URL) returns
    sink_consistent,    \* whether self.iyp returns every node it was asked for
    data,               \* resp.json()
    reference,          \* self.reference
    items,              \* flattened records
    prefixes, services, countries,          \* the unique-value sets
    prefix_id, tag_id, country_id,          \* maps returned by the graph client
    categorized_links, country_links,       \* the two link batches
    nodes, edges,       \* the graph behind self.iyp
    calls,              \* external calls of the current run, in order
    error,              \* the exception that ended the run, or "none"
    runs,               \* number of times run() was started
    snapshot            \* nodes and edges as the previous run left them

vars == <<pc, response, sink_consistent, data, reference, items, prefixes,
          services, countries, prefix_id, tag_id, country_id,
          categorized_links, country_links, nodes, edges, calls, error, runs,
          snapshot>>

-----------------------------------------------------------------------------
(* Bounds *)

MaxEntries == 2

MaxRuns == 2

MaxTimedEntries == 1

-----------------------------------------------------------------------------
(* Program constants *)

URL == "https://www.gstatic.com/ipranges/cloud.json"

ORG == "Google"

NAME == "google.gcp_ip_ranges"

REGION_TO_COUNTRY ==
    ("africa-south1" :> "ZA") @@
    ("asia-east1" :> "TW") @@
    ("asia-east2" :> "HK") @@
    ("asia-northeast1" :> "JP") @@
    ("asia-northeast2" :> "JP") @@
    ("asia-northeast3" :> "KR") @@
    ("asia-south1" :> "IN") @@
    ("asia-south2" :> "IN") @@
    ("asia-southeast1" :> "SG") @@
    ("asia-southeast2" :> "ID") @@
    ("australia-southeast1" :> "AU") @@
    ("australia-southeast2" :> "AU") @@
    ("europe-central2" :> "PL") @@
    ("europe-north1" :> "FI") @@
    ("europe-north2" :> "SE") @@
    ("europe-southwest1" :> "ES") @@
    ("europe-west1" :> "BE") @@
    ("europe-west2" :> "GB") @@
    ("europe-west3" :> "DE") @@
    ("europe-west4" :> "NL") @@
    ("europe-west6" :> "CH") @@
    ("europe-west8" :> "IT") @@
    ("europe-west9" :> "FR") @@
    ("europe-west10" :> "DE") @@
    ("europe-west12" :> "IT") @@
    ("me-central1" :> "QA") @@
    ("me-central2" :> "SA") @@
    ("me-west1" :> "IL") @@
    ("northamerica-northeast1" :> "CA") @@
    ("northamerica-northeast2" :> "CA") @@
    ("northamerica-south1" :> "MX") @@
    ("us-central1" :> "US") @@
    ("us-east1" :> "US") @@
    ("us-east4" :> "US") @@
    ("us-east5" :> "US") @@
    ("us-south1" :> "US") @@
    ("us-west1" :> "US") @@
    ("us-west2" :> "US") @@
    ("us-west3" :> "US") @@
    ("us-west4" :> "US") @@
    ("southamerica-east1" :> "BR") @@
    ("southamerica-west1" :> "CL")

-----------------------------------------------------------------------------
(* JSON input.  A key that the JSON object does not have is NoKey. *)

NoKey == "<no key>"

Unset == "<unset>"

\* A JSON value of the creationTime key: absent, a string, or another JSON
\* type (number, null, ...) whose text is kept for the record.
CreationTimes ==
    { [kind |-> "absent", text |-> NoKey],
      [kind |-> "string", text |-> "2024-05-01T12:30:45.123456"],
      [kind |-> "string", text |-> "yesterday"],
      [kind |-> "number", text |-> "1714566645"] }

V4Values == {NoKey, "34.80.0.0/15"}

V6Values == {NoKey, "2600:1900::/28"}

ServiceValues == {NoKey, "Cloud DNS"}

ScopeValues == {NoKey, "", "us-west1", "europe-west9", "moon-base1"}

Entries ==
    [ipv4Prefix : V4Values, ipv6Prefix : V6Values,
     service : ServiceValues, scope : ScopeValues]

\* Entries that have a prefix and name a region.
KeyedEntries ==
    {e \in Entries : /\ e.ipv4Prefix # NoKey \/ e.ipv6Prefix # NoKey
                     /\ e.scope \notin {NoKey, ""}}

ListsUpTo(S, max) == UNION {[1..n -> S] : n \in 0..max}

NoCreationTime == [kind |-> "absent", text |-> NoKey]

EmptyDocument == [creationTime |-> NoCreationTime, prefixes |-> << >>]

\* Documents with any creationTime.
TimedDocuments ==
    [creationTime : CreationTimes,
     prefixes : ListsUpTo(Entries, MaxTimedEntries)]

\* Documents without creationTime.
UntimedDocuments ==
    [creationTime : {NoCreationTime}, prefixes : ListsUpTo(Entries, MaxEntries)]

KeyedDocuments ==
    [creationTime : {NoCreationTime},
     prefixes : ListsUpTo(KeyedEntries, MaxEntries)]

\* The final response of requests.get: redirects are followed, so its status
\* is a success or an HTTP error; the body decodes as JSON or does not.
Statuses == {200, 404, 503}

Responses ==
    [status : Statuses, decodable : {TRUE}, json : TimedDocuments]
    \cup [status : {200}, decodable : {TRUE}, json : UntimedDocuments]
    \cup [status : Statuses, decodable : {FALSE}, json : {EmptyDocument}]

KeyedResponses == [status : {200}, decodable : {TRUE}, json : KeyedDocuments]

-----------------------------------------------------------------------------
(* Pure parts of Crawler.run *)

\* raise_for_status that takes only server errors for errors.
raise_for_status_5xx(resp) == resp.status >= 500 /\ resp.status < 600

\* Response.raise_for_status: HTTPError for a 4xx or 5xx status.
raise_for_status(resp) == resp.status >= 400 /\ resp.status < 600

\* datetime.fromisoformat on the strings of CreationTimes: the datetime, or
\* "ValueError".
fromisoformat(text) ==
    IF text = "2024-05-01T12:30:45.123456"
    THEN [wall |-> "2024-05-01 12:30:45.123456", tzinfo |-> "None"]
    ELSE [wall |-> "ValueError", tzinfo |-> "None"]

\* dt.replace(tzinfo=timezone.utc)
replace_tzinfo_utc(dt) == [dt EXCEPT !.tzinfo = "UTC"]

\* Lines 88-93: the value of self.reference after the creationTime block,
\* when the block does not raise.
ParseCreationTime(ref, ct) ==
    IF ct.kind = "absent" THEN ref
    ELSE IF fromisoformat(ct.text).wall = "ValueError" THEN ref
    ELSE [ref EXCEPT !.reference_time_modification =
                          replace_tzinfo_utc(fromisoformat(ct.text))]

\* item[key] read in place of item.get(key, default).
GetNoDefault(value, default) == value

\* dict.get(key, default)
Get(value, default) == IF value = NoKey THEN default ELSE value

\* The ipv6 block written as an elif of the ipv4 block.
ExtractEntryElif(item) ==
    IF item.ipv4Prefix # NoKey
    THEN << [prefix |-> item.ipv4Prefix,
             service |-> Get(item.service, "Google Cloud"),
             scope |-> Get(item.scope, ""),
             af |-> 4] >>
    ELSE IF item.ipv6Prefix # NoKey
         THEN << [prefix |-> item.ipv6Prefix,
                  service |-> Get(item.service, "Google Cloud"),
                  scope |-> Get(item.scope, ""),
                  af |-> 6] >>
         ELSE << >>

\* Lines 98-111: the records of one entry of data['prefixes'].
ExtractEntry(item) ==
    (IF item.ipv4Prefix # NoKey
     THEN << [prefix |-> item.ipv4Prefix,
              service |-> Get(item.service, "Google Cloud"),
              scope |-> Get(item.scope, ""),
              af |-> 4] >>
     ELSE << >>)
    \o
    (IF item.ipv6Prefix # NoKey
     THEN << [prefix |-> item.ipv6Prefix,
              service |-> Get(item.service, "Google Cloud"),
              scope |-> Get(item.scope, ""),
              af |-> 6] >>
     ELSE << >>)

RECURSIVE ExtractItems(_)
\* Lines 96-111: the loop over data.get('prefixes', []).
ExtractItems(entries) ==
    IF entries = << >> THEN << >>
    ELSE ExtractEntry(Head(entries)) \o ExtractItems(Tail(entries))

\* Lines 120-121
CollectPrefixes(its) == {its[i].prefix : i \in DOMAIN its}

\* Line 122
CollectServices(its) == {its[i].service : i \in DOMAIN its}

\* countries.add(scope) in place of countries.add(REGION_TO_COUNTRY[scope]).
CollectScopes(its) ==
    {its[i].scope :
        i \in {j \in DOMAIN its : its[j].scope \in DOMAIN REGION_TO_COUNTRY}}

\* Lines 123-125
CollectCountries(its) ==
    {REGION_TO_COUNTRY[its[i].scope] :
        i \in {j \in DOMAIN its : its[j].scope \in DOMAIN REGION_TO_COUNTRY}}

\* dict lookup d[k], a KeyError when k is not a key of d.
KeyError == -1

Lookup(d, k) == IF k \in DOMAIN d THEN d[k] ELSE KeyError

\* The loop body without the "prefix not in prefix_id: continue" guard.
CategorizedOfUnguarded(item, pid, tid, ref) ==
    IF item.service \in DOMAIN tid
    THEN << [src_id |-> Lookup(pid, item.prefix),
             dst_id |-> Lookup(tid, item.service),
             props |-> <<ref>>] >>
    ELSE << >>

\* Lines 150-163: the CATEGORIZED links one record contributes.
CategorizedOf(item, pid, tid, ref) ==
    IF item.prefix \notin DOMAIN pid THEN << >>
    ELSE IF item.service \in DOMAIN tid
         THEN << [src_id |-> Lookup(pid, item.prefix),
                  dst_id |-> Lookup(tid, item.service),
                  props |-> <<ref>>] >>
         ELSE << >>

\* REGION_TO_COUNTRY.get(scope, 'US') in place of the membership test.
CountryOfDefaultUS(item, pid, cid, ref) ==
    IF item.prefix \notin DOMAIN pid THEN << >>
    ELSE LET cc == IF item.scope \in DOMAIN REGION_TO_COUNTRY
                   THEN REGION_TO_COUNTRY[item.scope] ELSE "US"
         IN IF cc \in DOMAIN cid
            THEN << [src_id |-> Lookup(pid, item.prefix),
                     dst_id |-> Lookup(cid, cc),
                     props |-> <<ref>>] >>
            ELSE << >>

\* Lines 150-154 and 165-174: the COUNTRY links one record contributes.
CountryOf(item, pid, cid, ref) ==
    IF item.prefix \notin DOMAIN pid THEN << >>
    ELSE IF item.scope \in DOMAIN REGION_TO_COUNTRY
         THEN IF REGION_TO_COUNTRY[item.scope] \in DOMAIN cid
              THEN << [src_id |-> Lookup(pid, item.prefix),
                       dst_id |-> Lookup(cid, REGION_TO_COUNTRY[item.scope]),
                       props |-> <<ref>>] >>
              ELSE << >>
         ELSE << >>

RECURSIVE BuildCategorizedUnique(_, _, _, _)
\* One link per distinct (prefix, service) in place of one per record.
BuildCategorizedUnique(its, pid, tid, ref) ==
    IF its = << >> THEN << >>
    ELSE (IF \E k \in DOMAIN Tail(its) :
                 /\ Tail(its)[k].prefix = Head(its).prefix
                 /\ Tail(its)[k].service = Head(its).service
          THEN << >>
          ELSE CategorizedOf(Head(its), pid, tid, ref))
         \o BuildCategorizedUnique(Tail(its), pid, tid, ref)

RECURSIVE BuildCategorized(_, _, _, _)
\* Lines 146-163: categorized_links after the loop over items.
BuildCategorized(its, pid, tid, ref) ==
    IF its = << >> THEN << >>
    ELSE CategorizedOf(Head(its), pid, tid, ref)
         \o BuildCategorized(Tail(its), pid, tid, ref)

RECURSIVE BuildCountryCopiedReference(_, _, _, _)
\* Each COUNTRY link given the reference as the constructor left it, in
\* place of self.reference.
BuildCountryCopiedReference(its, pid, cid, ref) ==
    IF its = << >> THEN << >>
    ELSE CountryOf(Head(its), pid, cid,
                   [ref EXCEPT !.reference_time_modification =
                                   [wall |-> Unset, tzinfo |-> "None"]])
         \o BuildCountryCopiedReference(Tail(its), pid, cid, ref)

RECURSIVE BuildCountry(_, _, _, _)
\* Lines 147-174: country_links after the loop over items.
BuildCountry(its, pid, cid, ref) ==
    IF its = << >> THEN << >>
    ELSE CountryOf(Head(its), pid, cid, ref)
         \o BuildCountry(Tail(its), pid, cid, ref)

RaisesKeyError(links) ==
    \E i \in DOMAIN links :
        links[i].src_id = KeyError \/ links[i].dst_id = KeyError

-----------------------------------------------------------------------------
(* The graph client self.iyp.  nodes is the sequence of nodes, a node's id  *)
(* is its index; edges is the set of relationships.                        *)

Matches(node, label, prop, value) ==
    label \in node.labels /\ node.prop = prop /\ node.value = value

Existing(ns, label, prop) ==
    {ns[i].value : i \in {j \in DOMAIN ns : label \in ns[j].labels
                                            /\ ns[j].prop = prop}}

RECURSIVE CreateNodes(_, _, _, _)
\* One new node per value of keys.
CreateNodes(ns, label, prop, keys) ==
    IF keys = {} THEN ns
    ELSE LET k == CHOOSE x \in keys : TRUE
         IN CreateNodes(Append(ns, [labels |-> {label}, prop |-> prop,
                                    value |-> k]),
                        label, prop, keys \ {k})

\* batch_get_nodes_by_single_prop(label, prop, keys, all=False): the graph
\* after the nodes that did not exist were created.
GetOrCreateNodes(ns, label, prop, keys) ==
    CreateNodes(ns, label, prop, keys \ Existing(ns, label, prop))

\* The id of the node of the given label and key.
NodeId(ns, label, prop, value) ==
    CHOOSE i \in DOMAIN ns : Matches(ns[i], label, prop, value)

\* The id map for the keys the client reports.
IdMap(ns, label, prop, keys) ==
    [k \in keys |-> NodeId(ns, label, prop, k)]

\* The sets of keys a client may report for a request of keys.
Reported(keys) == IF sink_consistent THEN {keys} ELSE SUBSET keys

\* batch_add_node_label(ids, label)
AddNodeLabel(ns, ids, label) ==
    [i \in DOMAIN ns |->
        IF i \in ids THEN [ns[i] EXCEPT !.labels = @ \cup {label}] ELSE ns[i]]

Edge(type, link) ==
    [type |-> type, src_id |-> link.src_id, dst_id |-> link.dst_id,
     props |-> link.props]

SameEdge(e, type, link) ==
    e.type = type /\ e.src_id = link.src_id /\ e.dst_id = link.dst_id

\* batch_add_links(type, links): upsert of the relationships of the batch.
AddLinks(es, type, links) ==
    {e \in es : ~ \E i \in DOMAIN links : SameEdge(e, type, links[i])}
    \cup {Edge(type, links[i]) : i \in DOMAIN links}

Range(f) == {f[k] : k \in DOMAIN f}

Call(op, arg, n) == [op |-> op, arg |-> arg, n |-> n]

-----------------------------------------------------------------------------
(* The state after Crawler(ORG, URL, NAME) *)

InitialReference ==
    [reference_org |-> ORG,
     reference_name |-> NAME,
     reference_url_data |-> URL,
     reference_url_info |->
         "https://cloud.google.com/compute/docs/faq#find_ip_range",
     reference_time_modification |-> [wall |-> Unset, tzinfo |-> "None"]]

EmptyMap == << >>

Constructed ==
    /\ pc = "fetch"
    /\ data = EmptyDocument
    /\ reference = InitialReference
    /\ items = << >>
    /\ prefixes = {} /\ services = {} /\ countries = {}
    /\ prefix_id = EmptyMap /\ tag_id = EmptyMap /\ country_id = EmptyMap
    /\ categorized_links = << >> /\ country_links = << >>
    /\ nodes = << >> /\ edges = {}
    /\ calls = << >>
    /\ error = "none"
    /\ runs = 1
    /\ snapshot = [nodes |-> << >>, edges |-> {}]

\* Any response, a graph client that returns every node it was asked for.
Init ==
    /\ Constructed
    /\ response \in Responses
    /\ sink_consistent = TRUE

\* A graph client that may leave nodes out of the maps it returns.
InitSink ==
    /\ Constructed
    /\ response \in KeyedResponses
    /\ sink_consistent = FALSE

InitRerun ==
    /\ Constructed
    /\ response \in KeyedResponses
    /\ sink_consistent = TRUE

-----------------------------------------------------------------------------
(* Crawler.run, one action per step *)

Fail(exc) ==
    /\ pc' = "failed"
    /\ error' = exc

\* Lines 82-84
Fetch ==
    /\ pc = "fetch"
    /\ calls' = Append(calls, Call("requests.get", URL, 0))
    /\ IF raise_for_status(response)
       THEN Fail("HTTPError") /\ UNCHANGED data
       ELSE IF ~ response.decodable
            THEN Fail("JSONDecodeError") /\ UNCHANGED data
            ELSE pc' = "creation_time" /\ data' = response.json
                 /\ UNCHANGED error
    /\ UNCHANGED <<response, sink_consistent, reference, items, prefixes,
                   services, countries, prefix_id, tag_id, country_id,
                   categorized_links, country_links, nodes, edges, runs,
                   snapshot>>

\* Lines 88-93: fromisoformat raises TypeError for an argument that is not a
\* str, and only ValueError is caught.
CreationTime ==
    /\ pc = "creation_time"
    /\ IF data.creationTime.kind \notin {"absent", "string"}
       THEN Fail("TypeError") /\ UNCHANGED reference
       ELSE /\ reference' = ParseCreationTime(reference, data.creationTime)
            /\ pc' = "prefixes"
            /\ UNCHANGED error
    /\ UNCHANGED <<response, sink_consistent, data, items, prefixes, services,
                   countries, prefix_id, tag_id, country_id,
                   categorized_links, country_links, nodes, edges, calls,
                   runs, snapshot>>

\* Lines 96-111
ParsePrefixes ==
    /\ pc = "prefixes"
    /\ items' = ExtractItems(data.prefixes)
    /\ pc' = "collect"
    /\ UNCHANGED <<response, sink_consistent, data, reference, prefixes,
                   services, countries, prefix_id, tag_id, country_id,
                   categorized_links, country_links, nodes, edges, calls,
                   error, runs, snapshot>>

\* Lines 116-127
CollectUnique ==
    /\ pc = "collect"
    /\ prefixes' = CollectPrefixes(items)
    /\ services' = CollectServices(items)
    /\ countries' = CollectCountries(items)
    /\ pc' = "get_prefix"
    /\ UNCHANGED <<response, sink_consistent, data, reference, items,
                   prefix_id, tag_id, country_id, categorized_links,
                   country_links, nodes, edges, calls, error, runs, snapshot>>

\* Nodes created for every prefix, whether or not the graph has them.
CreatePrefixNodes ==
    /\ pc = "get_prefix"
    /\ nodes' = CreateNodes(nodes, "GeoPrefix", "prefix", prefixes)
    /\ \E got \in Reported(prefixes) :
           prefix_id' = IdMap(nodes', "GeoPrefix", "prefix", got)
    /\ calls' = Append(calls, Call("batch_get_nodes_by_single_prop",
                                   "GeoPrefix", Cardinality(prefixes)))
    /\ pc' = "add_label"
    /\ UNCHANGED <<response, sink_consistent, data, reference, items,
                   prefixes, services, countries, tag_id, country_id,
                   categorized_links, country_links, edges, error, runs,
                   snapshot>>

\* Lines 131-133
GetPrefixNodes ==
    /\ pc = "get_prefix"
    /\ nodes' = GetOrCreateNodes(nodes, "GeoPrefix", "prefix", prefixes)
    /\ \E got \in Reported(prefixes) :
           prefix_id' = IdMap(nodes', "GeoPrefix", "prefix", got)
    /\ calls' = Append(calls, Call("batch_get_nodes_by_single_prop",
                                   "GeoPrefix", Cardinality(prefixes)))
    /\ pc' = "add_label"
    /\ UNCHANGED <<response, sink_consistent, data, reference, items,
                   prefixes, services, countries, tag_id, country_id,
                   categorized_links, country_links, edges, error, runs,
                   snapshot>>

\* Line 135
AddPrefixLabel ==
    /\ pc = "add_label"
    /\ nodes' = AddNodeLabel(nodes, Range(prefix_id), "Prefix")
    /\ calls' = Append(calls, Call("batch_add_node_label", "Prefix",
                                   Cardinality(DOMAIN prefix_id)))
    /\ pc' = "get_tag"
    /\ UNCHANGED <<response, sink_consistent, data, reference, items,
                   prefixes, services, countries, prefix_id, tag_id,
                   country_id, categorized_links, country_links, edges,
                   error, runs, snapshot>>

\* Lines 137-139
GetTagNodes ==
    /\ pc = "get_tag"
    /\ nodes' = GetOrCreateNodes(nodes, "Tag", "label", services)
    /\ \E got \in Reported(services) :
           tag_id' = IdMap(nodes', "Tag", "label", got)
    /\ calls' = Append(calls, Call("batch_get_nodes_by_single_prop",
                                   "Tag", Cardinality(services)))
    /\ pc' = "get_country"
    /\ UNCHANGED <<response, sink_consistent, data, reference, items,
                   prefixes, services, countries, prefix_id, country_id,
                   categorized_links, country_links, edges, error, runs,
                   snapshot>>

\* Lines 141-143
GetCountryNodes ==
    /\ pc = "get_country"
    /\ nodes' = GetOrCreateNodes(nodes, "Country", "country_code", countries)
    /\ \E got \in Reported(countries) :
           country_id' = IdMap(nodes', "Country", "country_code", got)
    /\ calls' = Append(calls, Call("batch_get_nodes_by_single_prop",
                                   "Country", Cardinality(countries)))
    /\ pc' = "links"
    /\ UNCHANGED <<response, sink_consistent, data, reference, items,
                   prefixes, services, countries, prefix_id, tag_id,
                   categorized_links, country_links, edges, error, runs,
                   snapshot>>

\* Lines 146-174
PrepareRelationships ==
    /\ pc = "links"
    /\ LET cat == BuildCategorized(items, prefix_id, tag_id, reference)
           cou == BuildCountry(items, prefix_id, country_id, reference)
       IN IF RaisesKeyError(cat) \/ RaisesKeyError(cou)
          THEN Fail("KeyError")
               /\ UNCHANGED <<categorized_links, country_links>>
          ELSE /\ categorized_links' = cat
               /\ country_links' = cou
               /\ pc' = "add_categorized"
               /\ UNCHANGED error
    /\ UNCHANGED <<response, sink_consistent, data, reference, items,
                   prefixes, services, countries, prefix_id, tag_id,
                   country_id, nodes, edges, calls, runs, snapshot>>

\* Line 178
AddCategorizedLinks ==
    /\ pc = "add_categorized"
    /\ edges' = AddLinks(edges, "CATEGORIZED", categorized_links)
    /\ calls' = Append(calls, Call("batch_add_links", "CATEGORIZED",
                                   Len(categorized_links)))
    /\ pc' = "add_country"
    /\ UNCHANGED <<response, sink_consistent, data, reference, items,
                   prefixes, services, countries, prefix_id, tag_id,
                   country_id, categorized_links, country_links, nodes,
                   error, runs, snapshot>>

\* Line 181
AddCountryLinks ==
    /\ pc = "add_country"
    /\ edges' = AddLinks(edges, "COUNTRY", country_links)
    /\ calls' = Append(calls, Call("batch_add_links", "COUNTRY",
                                   Len(country_links)))
    /\ pc' = "done"
    /\ UNCHANGED <<response, sink_consistent, data, reference, items,
                   prefixes, services, countries, prefix_id, tag_id,
                   country_id, categorized_links, country_links, nodes,
                   error, runs, snapshot>>

\* run() called again on the same crawler, the graph kept: the locals of the
\* previous call are gone, self.reference stays.
RunAgain ==
    /\ pc = "done"
    /\ runs < MaxRuns
    /\ runs' = runs + 1
    /\ snapshot' = [nodes |-> nodes, edges |-> edges]
    /\ pc' = "fetch"
    /\ data' = EmptyDocument
    /\ items' = << >>
    /\ prefixes' = {} /\ services' = {} /\ countries' = {}
    /\ prefix_id' = EmptyMap /\ tag_id' = EmptyMap /\ country_id' = EmptyMap
    /\ categorized_links' = << >> /\ country_links' = << >>
    /\ calls' = << >>
    /\ UNCHANGED <<response, sink_consistent, reference, nodes, edges, error>>

Next ==
    \/ Fetch
    \/ CreationTime
    \/ ParsePrefixes
    \/ CollectUnique
    \/ GetPrefixNodes
    \/ AddPrefixLabel
    \/ GetTagNodes
    \/ GetCountryNodes
    \/ PrepareRelationships
    \/ AddCategorizedLinks
    \/ AddCountryLinks

Spec == Init /\ [][Next]_vars

SpecSink == InitSink /\ [][Next]_vars

NextRerun == Next \/ RunAgain

SpecRerun == InitRerun /\ [][NextRerun]_vars

-----------------------------------------------------------------------------
(* Vocabulary of the properties *)

\* Positions at which items holds the extracted records.
Extracted ==
    {"collect", "get_prefix", "add_label", "get_tag", "get_country", "links",
     "add_categorized", "add_country", "done"}

\* Positions at which the unique-value sets are built.
Collected == Extracted \ {"collect"}

\* Positions at which both link batches are built.
Prepared == {"add_categorized", "add_country", "done"}

HasV4(e) == e.ipv4Prefix # NoKey

HasV6(e) == e.ipv6Prefix # NoKey

KeysOf(e) == (IF HasV4(e) THEN 1 ELSE 0) + (IF HasV6(e) THEN 1 ELSE 0)

RECURSIVE KeyCount(_, _)
\* Number of prefix keys in the first n entries.
KeyCount(entries, n) ==
    IF n = 0 THEN 0 ELSE KeyCount(entries, n - 1) + KeysOf(entries[n])

\* Positions in items of the records of entry i.
RecordsOf(entries, i) ==
    (KeyCount(entries, i - 1) + 1) .. KeyCount(entries, i)

CidrsOf(e) == {e.ipv4Prefix, e.ipv6Prefix} \ {NoKey}

KnownScopes ==
    {"africa-south1", "asia-east1", "asia-east2", "asia-northeast1",
     "asia-northeast2", "asia-northeast3", "asia-south1", "asia-south2",
     "asia-southeast1", "asia-southeast2", "australia-southeast1",
     "australia-southeast2", "europe-central2", "europe-north1",
     "europe-north2", "europe-southwest1", "europe-west1", "europe-west2",
     "europe-west3", "europe-west4", "europe-west6", "europe-west8",
     "europe-west9", "europe-west10", "europe-west12", "me-central1",
     "me-central2", "me-west1", "northamerica-northeast1",
     "northamerica-northeast2", "northamerica-south1", "us-central1",
     "us-east1", "us-east4", "us-east5", "us-south1", "us-west1", "us-west2",
     "us-west3", "us-west4", "southamerica-east1", "southamerica-west1"}

\* An entry whose scope is absent, empty or no region of the table.
ScopeUnknown(e) == e.scope \notin KnownScopes

SourcesOf(links) == {links[i].src_id : i \in DOMAIN links}

EdgesOfType(type) == {e \in edges : e.type = type}

SinkCalls == SelectSeq(calls, LAMBDA c : c.op # "requests.get")

CallNames(cs) == [i \in DOMAIN cs |-> <<cs[i].op, cs[i].arg>>]

ExpectedCalls ==
    << <<"batch_get_nodes_by_single_prop", "GeoPrefix">>,
       <<"batch_add_node_label", "Prefix">>,
       <<"batch_get_nodes_by_single_prop", "Tag">>,
       <<"batch_get_nodes_by_single_prop", "Country">>,
       <<"batch_add_links", "CATEGORIZED">>,
       <<"batch_add_links", "COUNTRY">> >>

TimeUnset == reference.reference_time_modification.wall = Unset

-----------------------------------------------------------------------------
(* C1 *)

\* C1 as stated: no COUNTRY link leaves the node of a prefix that appears in
\* an entry whose scope is empty, absent or unknown, even when the same CIDR
\* appears in another entry with a known scope.
C1_NoCountryLinkForAnyUnknownScopeEntry ==
    pc \in Prepared =>
        \A i \in DOMAIN data.prefixes :
            ScopeUnknown(data.prefixes[i]) =>
                \A c \in CidrsOf(data.prefixes[i]) \cap DOMAIN prefix_id :
                    prefix_id[c] \notin SourcesOf(country_links)

\* C1 amended: no COUNTRY link of the batch, and no COUNTRY edge of the graph
\* after the run, leaves the node of a prefix that appears only in entries
\* whose scope is empty, absent or unknown.
C1_NoCountryLinkForUnknownScopeOnly ==
    pc \in Prepared =>
        \A c \in DOMAIN prefix_id :
            (\A i \in DOMAIN data.prefixes :
                c \in CidrsOf(data.prefixes[i])
                    => ScopeUnknown(data.prefixes[i]))
            => /\ prefix_id[c] \notin SourcesOf(country_links)
               /\ pc = "done" =>
                      \A e \in EdgesOfType("COUNTRY") : e.src_id # prefix_id[c]

C1_Witness ==
    /\ pc = "done"
    /\ country_links # << >>
    /\ \E c \in DOMAIN prefix_id :
           /\ prefix_id[c] \notin SourcesOf(country_links)
           /\ \E i \in DOMAIN data.prefixes :
                  /\ c \in CidrsOf(data.prefixes[i])
                  /\ data.prefixes[i].scope = "moon-base1"

-----------------------------------------------------------------------------
(* C2 *)

ResolvedService == {i \in DOMAIN items : items[i].service \in DOMAIN tag_id}

ResolvedPrefix == {i \in DOMAIN items : items[i].prefix \in DOMAIN prefix_id}

\* C2 as stated: the number of CATEGORIZED links is the number of records
\* whose service is a key of the returned Tag map, also when a record's prefix
\* is missing from the returned GeoPrefix map.
C2_CategorizedCountByServiceOnly ==
    pc \in Prepared =>
        /\ Len(categorized_links) <= Len(items)
        /\ Len(categorized_links) = Cardinality(ResolvedService)

\* C2 amended: the number of CATEGORIZED links passed to batch_add_links is
\* at most the number of records and equals the number of records whose
\* service is a key of the returned Tag map and whose prefix is a key of the
\* returned GeoPrefix map.
C2_CategorizedCount ==
    /\ pc \in Prepared =>
        /\ Len(categorized_links) <= Len(items)
        /\ Len(categorized_links)
               = Cardinality(ResolvedService \cap ResolvedPrefix)
    /\ pc \in {"add_country", "done"} =>
           SinkCalls[5].n = Cardinality(ResolvedService \cap ResolvedPrefix)

C2_Witness ==
    /\ pc = "done"
    /\ ResolvedService \ ResolvedPrefix # {}
    /\ ResolvedPrefix \ ResolvedService # {}
    /\ categorized_links # << >>
    /\ Len(categorized_links) < Len(items)

-----------------------------------------------------------------------------
(* C3 *)

\* C3: every link of either batch goes from an id of the returned GeoPrefix
\* map to an id of the returned Tag (CATEGORIZED) or Country (COUNTRY) map;
\* whatever the graph client leaves out, the run does not fail once it has
\* started to call the client, it can always take its next step, and when it
\* is done both batch_add_links calls were made.
C3_LinksOnlyBetweenReturnedNodes ==
    /\ pc \in Prepared =>
        /\ \A i \in DOMAIN categorized_links :
               /\ categorized_links[i].src_id \in Range(prefix_id)
               /\ categorized_links[i].dst_id \in Range(tag_id)
        /\ \A i \in DOMAIN country_links :
               /\ country_links[i].src_id \in Range(prefix_id)
               /\ country_links[i].dst_id \in Range(country_id)
    /\ SinkCalls # << >> => pc # "failed" /\ error = "none"
    /\ pc \notin {"done", "failed"} => ENABLED Next
    /\ pc = "done" =>
        /\ Len(SinkCalls) = 6
        /\ CallNames(SinkCalls)[5] = <<"batch_add_links", "CATEGORIZED">>
        /\ CallNames(SinkCalls)[6] = <<"batch_add_links", "COUNTRY">>

C3_Witness ==
    /\ pc = "done"
    /\ prefixes \ DOMAIN prefix_id # {}
    /\ services \ DOMAIN tag_id # {}
    /\ countries \ DOMAIN country_id # {}
    /\ categorized_links # << >>
    /\ country_links # << >>

-----------------------------------------------------------------------------
(* C4 *)

FetchFails == response.status \notin 200..299 \/ ~ response.decodable

-----------------------------------------------------------------------------
(* C5 *)

Unparseable(ct) ==
    /\ ct.kind # "absent"
    /\ ct.kind = "string" => ct.text = "yesterday"

\* C5 as stated: a creationTime that does not parse, a malformed string or a
\* value that is no string, never ends the run; the modification time stays
\* unset and the prefixes are processed.
C5_UnparseableCreationTimeRecovered ==
    (~ FetchFails /\ Unparseable(response.json.creationTime)) =>
        /\ pc # "failed"
        /\ error = "none"
        /\ TimeUnset

-----------------------------------------------------------------------------
(* C6 *)

-----------------------------------------------------------------------------
(* C7 *)

\* C7: an entry with both keys gives exactly two records, first the one with
\* af 4 and the ipv4 CIDR, then the one with af 6 and the ipv6 CIDR; an entry
\* with one key gives one record, an entry with none gives none; the records
\* follow the order of the entries and their number is the number of prefix
\* keys.
C7_RecordsPerEntry ==
    pc \in Extracted =>
        /\ Len(items) = KeyCount(data.prefixes, Len(data.prefixes))
        /\ \A i \in DOMAIN data.prefixes :
            LET e == data.prefixes[i]
                first == KeyCount(data.prefixes, i - 1) + 1
            IN /\ (HasV4(e) /\ HasV6(e)) =>
                      /\ items[first].af = 4
                      /\ items[first].prefix = e.ipv4Prefix
                      /\ items[first + 1].af = 6
                      /\ items[first + 1].prefix = e.ipv6Prefix
               /\ (HasV4(e) /\ ~ HasV6(e)) =>
                      /\ items[first].af = 4
                      /\ items[first].prefix = e.ipv4Prefix
               /\ (~ HasV4(e) /\ HasV6(e)) =>
                      /\ items[first].af = 6
                      /\ items[first].prefix = e.ipv6Prefix

C7_Witness ==
    /\ pc = "collect"
    /\ Len(data.prefixes) = 2
    /\ HasV4(data.prefixes[1]) /\ HasV6(data.prefixes[1])
    /\ ~ HasV4(data.prefixes[2]) /\ HasV6(data.prefixes[2])
    /\ Len(items) = 3

-----------------------------------------------------------------------------
(* C8 *)

\* The country of the regions the inputs name, as the table gives them.
CountryOfRegion(scope) ==
    CASE scope = "us-west1" -> "US"
      [] scope = "europe-west9" -> "FR"
      [] OTHER -> "??"

InputRegions == {"us-west1", "europe-west9"}

\* Records that must have a COUNTRY link.
Attributed ==
    {i \in DOMAIN items :
        /\ items[i].scope \in InputRegions
        /\ items[i].prefix \in DOMAIN prefix_id
        /\ CountryOfRegion(items[i].scope) \in DOMAIN country_id}

\* C8: for a record whose scope is a region of the table, the country
\* requested as a Country node is the table's value (us-west1 -> US,
\* europe-west9 -> FR); when the prefix node and that Country node are
\* returned, the record has exactly one COUNTRY link, from the prefix node to
\* the node of that country.
C8_CountryFromTable ==
    /\ pc \in Collected =>
        countries = {CountryOfRegion(items[i].scope) :
                        i \in {j \in DOMAIN items :
                                   items[j].scope \in InputRegions}}
    /\ pc \in Prepared =>
        /\ Len(country_links) = Cardinality(Attributed)
        /\ \A i \in Attributed :
            \E k \in DOMAIN country_links :
                /\ country_links[k].src_id = prefix_id[items[i].prefix]
                /\ country_links[k].dst_id
                       = country_id[CountryOfRegion(items[i].scope)]
                /\ nodes[country_links[k].dst_id].value
                       = CountryOfRegion(items[i].scope)
                /\ "Country" \in nodes[country_links[k].dst_id].labels

C8_Witness ==
    /\ pc = "done"
    /\ \E i, j \in Attributed :
           /\ items[i].scope = "us-west1"
           /\ items[j].scope = "europe-west9"
    /\ Len(country_links) = 2

-----------------------------------------------------------------------------
(* C9 *)

\* C9: the calls of the graph client are made once each in the order
\* GeoPrefix get-or-create, Prefix label, Tag get-or-create, Country
\* get-or-create, CATEGORIZED links, COUNTRY links; and every link of both
\* batches, and every edge written, carries the one reference object.
C9_CallOrderAndSharedReference ==
    /\ Len(SinkCalls) <= Len(ExpectedCalls)
    /\ CallNames(SinkCalls) = SubSeq(ExpectedCalls, 1, Len(SinkCalls))
    /\ pc = "done" => Len(SinkCalls) = Len(ExpectedCalls)
    /\ pc \in Prepared =>
        /\ \A i \in DOMAIN categorized_links :
               categorized_links[i].props = <<reference>>
        /\ \A i \in DOMAIN country_links :
               country_links[i].props = <<reference>>
    /\ \A e \in edges : e.props = <<reference>>

C9_Witness ==
    /\ pc = "done"
    /\ ~ TimeUnset
    /\ EdgesOfType("CATEGORIZED") # {}
    /\ EdgesOfType("COUNTRY") # {}
    /\ Len(SinkCalls) = 6

-----------------------------------------------------------------------------
(* C10 *)

\* C10: the records of an entry without service key have service "Google
\* Cloud", those of an entry without scope key have scope ""; the records of
\* an entry that has the keys keep the values; the Tag nodes requested are
\* exactly the service names of the records.
C10_Defaults ==
    /\ pc \in Extracted =>
        \A i \in DOMAIN data.prefixes :
            \A k \in RecordsOf(data.prefixes, i) :
                LET e == data.prefixes[i]
                IN /\ items[k].service
                          = (IF e.service = NoKey THEN "Google Cloud"
                                                  ELSE e.service)
                   /\ items[k].scope
                          = (IF e.scope = NoKey THEN "" ELSE e.scope)
    /\ pc \in Collected =>
           services = {items[k].service : k \in DOMAIN items}
    /\ pc \in {"get_country", "links"} \cup Prepared =>
           Existing(nodes, "Tag", "label")
               = {items[k].service : k \in DOMAIN items}

C10_Witness ==
    /\ pc = "done"
    /\ Len(data.prefixes) = 2
    /\ data.prefixes[1].service = NoKey /\ data.prefixes[1].scope = NoKey
    /\ HasV4(data.prefixes[1]) /\ HasV6(data.prefixes[1])
    /\ data.prefixes[2].service = "Cloud DNS"
    /\ data.prefixes[2].scope = "us-west1"
    /\ HasV4(data.prefixes[2])
    /\ services = {"Google Cloud", "Cloud DNS"}

====
